---------------------------- MODULE Spec2Model ----------------------------
(***************************************************************************)
(* Model of setup.py of the pasteboard package: get_python_library (the    *)
(* libpython locator) and CMakeBuild.build_extension (locate, then cmake   *)
(* configure, then cmake build).                                           *)
(*                                                                         *)
(* Python strings are sequences of one-character strings, so that the      *)
(* string operations of the code (splitext, split, join, startswith,       *)
(* slicing, format) are computed character by character.  None is the      *)
(* one-element sequence <<"None">>, which is no Python string.             *)
(***************************************************************************)
EXTENDS Integers, Sequences, FiniteSets, TLC

None == <<"None">>
TypeError == <<"TypeError">>
CalledProcessError == <<"CalledProcessError">>

(* ------------------------------ bounds --------------------------------- *)
\* largest number of entries of the file system an initial state holds
MaxEntries == 2
\* largest value of the build command's parallel option
MaxParallel == 2

(* ------------------------- string literals ----------------------------- *)
sep == <<"/">>
extsep == <<".">>
S_empty == <<>>
S_lib == <<"l", "i", "b">>
S_python == <<"p", "y", "t", "h", "o", "n">>
S_dotlib == <<".", "l", "i", "b">>
S_dotso == <<".", "s", "o">>
S_dota == <<".", "a">>
S_dotdylib == <<".", "d", "y", "l", "i", "b">>
S_dotdot == <<".", ".">>
S_dot == <<".">>
S_libs == <<"l", "i", "b", "s">>
S_dashj == <<"-", "j">>
S_dashj4 == <<"-", "j", "4">>
S_310 == <<"3", ".", "1", "0">>
S_cat310 == <<"3", "1", "0">>
S_d == <<"d">>
S_usrlib == <<"/", "u", "s", "r", "/", "l", "i", "b">>
S_usrliblibs == <<"/", "u", "s", "r", "/", "l", "i", "b", "/", "l", "i", "b", "s">>
S_usrlibx86 == <<"/", "u", "s", "r", "/", "l", "i", "b", "/", "x", "8", "6">>
S_libdest == <<"/", "u", "s", "r", "/", "l", "i", "b", "/", "p", "y">>
S_x86 == <<"x", "8", "6">>
S_slashx86 == <<"/", "x", "8", "6">>
S_cwd == <<"/", "w">>
S_libpython_a == S_lib \o S_python \o S_310 \o S_dota
S_libpython_dylib == S_lib \o S_python \o S_310 \o S_dotdylib
S_libpython_so == S_lib \o S_python \o S_310 \o S_dotso
S_python_la == S_python \o <<".", "l", "a">>
S_framework == <<"P", ".", "f", "/", "3", ".", "1", "0", "/", "P">>
CMAKE_BUILD_PARALLEL_LEVEL == "CMAKE_BUILD_PARALLEL_LEVEL"

(* ------------------------- string operations --------------------------- *)
\* s[i:] with a 0-based start, as Python slices
SliceFrom(s, i) == SubSeq(s, i + 1, Len(s))

\* s[-n:]
LastN(s, n) == IF Len(s) <= n THEN s ELSE SubSeq(s, Len(s) - n + 1, Len(s))

\* s.startswith(p)
StartsWith(s, p) == Len(s) >= Len(p) /\ SubSeq(s, 1, Len(p)) = p

\* s.endswith(p)
EndsWith(s, p) == Len(s) >= Len(p) /\ SubSeq(s, Len(s) - Len(p) + 1, Len(s)) = p

\* s.rfind(c) for a one-character c, as a 1-based index, 0 when absent
RFind(s, c) ==
    LET hits == {i \in 1..Len(s) : <<s[i]>> = c}
    IN  IF hits = {} THEN 0 ELSE CHOOSE i \in hits : \A j \in hits : j <= i

\* os.path.splitext: the extension starts at the last dot of the last
\* component, unless that component has only leading dots before it
Splitext(p) ==
    LET sepIndex == RFind(p, sep)
        dotIndex == RFind(p, extsep)
        nonDot == {i \in (sepIndex + 1)..(dotIndex - 1) : <<p[i]>> # extsep}
    IN  IF dotIndex > sepIndex /\ nonDot # {}
        THEN <<SubSeq(p, 1, dotIndex - 1), SubSeq(p, dotIndex, Len(p))>>
        ELSE <<p, <<>>>>

RECURSIVE Split(_, _)
\* s.split(c) for a one-character c: the list of the pieces between the c's
Split(s, c) ==
    LET hits == {i \in 1..Len(s) : <<s[i]>> = c}
    IN  IF hits = {} THEN <<s>>
        ELSE LET i == CHOOSE k \in hits : \A j \in hits : k <= j
             IN  <<SubSeq(s, 1, i - 1)>> \o Split(SubSeq(s, i + 1, Len(s)), c)

RECURSIVE Concat(_)
\* "".join(list)
Concat(list) == IF list = <<>> THEN <<>> ELSE Head(list) \o Concat(Tail(list))

\* list[:n]
Take(list, n) == SubSeq(list, 1, IF Len(list) < n THEN Len(list) ELSE n)

\* os.path.join(a, b) of posixpath; None for either argument raises TypeError
Join(a, b) ==
    IF a = None \/ b = None THEN TypeError
    ELSE IF StartsWith(b, sep) THEN b
    ELSE IF a = <<>> \/ EndsWith(a, sep) THEN a \o b
    ELSE a \o sep \o b

RECURSIVE NormComps(_, _, _)
\* the loop of posixpath.normpath over the components of the path
NormComps(comps, new_comps, initial_slashes) ==
    IF comps = <<>> THEN new_comps
    ELSE LET comp == Head(comps)
             rest == Tail(comps)
         IN  IF comp = <<>> \/ comp = S_dot
             THEN NormComps(rest, new_comps, initial_slashes)
             ELSE IF \/ comp # S_dotdot
                     \/ (initial_slashes = 0 /\ new_comps = <<>>)
                     \/ (new_comps # <<>> /\ new_comps[Len(new_comps)] = S_dotdot)
             THEN NormComps(rest, Append(new_comps, comp), initial_slashes)
             ELSE IF new_comps # <<>>
             THEN NormComps(rest, SubSeq(new_comps, 1, Len(new_comps) - 1), initial_slashes)
             ELSE NormComps(rest, new_comps, initial_slashes)

RECURSIVE JoinWith(_, _)
\* c.join(list)
JoinWith(c, list) ==
    IF list = <<>> THEN <<>>
    ELSE IF Len(list) = 1 THEN Head(list)
    ELSE Head(list) \o c \o JoinWith(c, Tail(list))

\* posixpath.normpath
Normpath(path) ==
    IF path = <<>> THEN S_dot
    ELSE LET initial_slashes ==
                 IF ~StartsWith(path, sep) THEN 0
                 ELSE IF StartsWith(path, sep \o sep) /\ ~StartsWith(path, sep \o sep \o sep)
                 THEN 2 ELSE 1
             body == JoinWith(sep, NormComps(Split(path, sep), <<>>, initial_slashes))
             out == IF initial_slashes = 2 THEN sep \o sep \o body
                    ELSE IF initial_slashes = 1 THEN sep \o body
                    ELSE body
         IN  IF out = <<>> THEN S_dot ELSE out

\* os.path.abspath: a relative path is taken from the working directory
Abspath(path) ==
    IF path = TypeError THEN TypeError
    ELSE IF StartsWith(path, sep) THEN Normpath(path)
    ELSE Normpath(Join(S_cwd, path))

Digit(n) == <<"0", "1", "2", "3", "4", "5", "6", "7", "8", "9">>[n + 1]

RECURSIVE Decimal(_)
\* "{}".format(n) for a natural number n
Decimal(n) == IF n < 10 THEN <<Digit(n)>> ELSE Decimal(n \div 10) \o <<Digit(n % 10)>>

\* "{}".format(v) of a string or None
Format(v) == IF v = None THEN <<"N", "o", "n", "e">> ELSE v

\* truth value of a configuration string: None and "" are false
Truthy(s) == s # None /\ s # <<>>

(* ------------------------------- state --------------------------------- *)
VARIABLES
    config_vars,              \* sysconfig's configuration variables
    python_version,           \* sysconfig.get_python_version(), the argument
    sys_abiflags,             \* sys.abiflags, None when sys has no such attribute
    fs,                       \* the file system: path |-> "file" or "dir"
    environ,                  \* the names set in os.environ
    self,                     \* the build command: has_parallel, parallel
    build_temp_exists,        \* whether self.build_temp exists on disk
    pc,                       \* position in build_extension / get_python_library
    python_library,           \* local of get_python_library
    candidate_lib_prefixes,
    candidate_extensions,
    candidate_versions,
    candidate_abiflags,
    libdir,
    consumed,                 \* number of candidates taken from the generator
    build_args,
    events,                   \* locator return and subprocesses, in order
    exc                       \* the exception that ended the run, or None

inputs == <<config_vars, python_version, sys_abiflags, environ, self>>
axes == <<candidate_lib_prefixes, candidate_extensions, candidate_versions,
          candidate_abiflags>>
vars == <<config_vars, python_version, sys_abiflags, fs, environ, self,
          build_temp_exists, pc, python_library, candidate_lib_prefixes,
          candidate_extensions, candidate_versions, candidate_abiflags,
          libdir, consumed, build_args, events, exc>>

\* sysconfig.get_config_var(name)
get_config_var(name) == config_vars[name]

\* os.path.exists(path): true of files and of directories alike
Exists(path) == path \in DOMAIN fs

(* ------------------------ get_python_library --------------------------- *)
\* variant: the test looks at the last character of the extension only
NeedsSearchLastChar(library) ==
    library = None \/ LastN(Splitext(library)[2], 1) = <<"a">>

\* python_library is None or os.path.splitext(python_library)[1][-2:] == ".a"
NeedsSearch(library) ==
    library = None \/ LastN(Splitext(library)[2], 2) = S_dota

\* variant: the static archive is tried first
CandidateExtensionsStaticFirst(with_dyld) ==
    IF with_dyld # 0 THEN <<S_dotdylib, S_dota, S_dotlib, S_dotso>>
    ELSE <<S_dota, S_dotlib, S_dotso>>

\* [".lib", ".so", ".a"], with ".dylib" inserted in front under WITH_DYLD
CandidateExtensions(with_dyld) ==
    IF with_dyld # 0 THEN <<S_dotdylib, S_dotlib, S_dotso, S_dota>>
    ELSE <<S_dotlib, S_dotso, S_dota>>

\* variant: the concatenated version is inserted after the full version
CandidateVersionsFullFirst(version) ==
    IF version # <<>>
    THEN <<version>> \o <<Concat(Take(Split(version, extsep), 2))>> \o <<S_empty>>
    ELSE <<version>>

\* [python_version]; for a non-empty version "" is appended and the first
\* two dotted components, concatenated, are inserted in front
CandidateVersions(version) ==
    IF version # <<>>
    THEN <<Concat(Take(Split(version, extsep), 2))>> \o <<version>> \o <<S_empty>>
    ELSE <<version>>

\* getattr(sys, "abiflags", "")
Abiflags(attr) == IF attr = None THEN S_empty ELSE attr

\* [abiflags], with "" appended when abiflags is non-empty
CandidateAbiflags(abiflags) ==
    IF abiflags # <<>> THEN <<abiflags, S_empty>> ELSE <<abiflags>>

\* the library directory of lines 43-54, or TypeError when a None reaches
\* os.path.join
Libdir(cfg) ==
    LET dir0 == cfg["LIBDIR"]
        masd0 == cfg["multiarchsubdir"]
        masd == IF StartsWith(masd0, sep) THEN SliceFrom(masd0, Len(sep)) ELSE masd0
        dir1 == IF Truthy(cfg["MULTIARCH"]) /\ Truthy(masd0)
                THEN Join(dir0, masd) ELSE dir0
    IN  IF dir1 = TypeError THEN TypeError
        ELSE IF dir1 = None
        THEN Abspath(Join(Join(cfg["LIBDEST"], S_dotdot), S_libs))
        ELSE dir1

\* variant: the second argument is the outermost axis
ProductSecondMajor(A, B, C, D) ==
    [k \in 1..(Len(A) * Len(B) * Len(C) * Len(D)) |->
        <<A[(((k - 1) \div (Len(C) * Len(D))) % Len(A)) + 1],
          B[((k - 1) \div (Len(A) * Len(C) * Len(D))) + 1],
          C[(((k - 1) \div Len(D)) % Len(C)) + 1],
          D[((k - 1) % Len(D)) + 1]>>]

\* itertools.product(A, B, C, D): the rightmost argument advances fastest
Product(A, B, C, D) ==
    [k \in 1..(Len(A) * Len(B) * Len(C) * Len(D)) |->
        <<A[((k - 1) \div (Len(B) * Len(C) * Len(D))) + 1],
          B[(((k - 1) \div (Len(C) * Len(D))) % Len(B)) + 1],
          C[(((k - 1) \div Len(D)) % Len(C)) + 1],
          D[((k - 1) % Len(D)) + 1]>>]

\* os.path.join(libdir, "".join((pre, "python", ver, abi, ext))) of a tuple
\* (pre, ext, ver, abi) of the product
CandidatePath(dir, t) == Join(dir, Concat(<<t[1], S_python, t[3], t[4], t[2]>>))

\* the tuples the generator `candidates` yields, in order
CandidateTuples ==
    Product(candidate_lib_prefixes, candidate_extensions, candidate_versions,
            candidate_abiflags)

\* lines 17-20 on the fast path: LIBRARY is present and not a static archive
ReadLibraryDynamic ==
    /\ pc = "start"
    /\ ~NeedsSearch(get_config_var("LIBRARY"))
    /\ python_library' = get_config_var("LIBRARY")
    /\ pc' = "return"
    /\ UNCHANGED <<inputs, fs, build_temp_exists, axes, libdir, consumed,
                   build_args, events, exc>>

\* lines 17-36: LIBRARY is missing or static, the search axes are built
ReadLibrarySearch ==
    /\ pc = "start"
    /\ NeedsSearch(get_config_var("LIBRARY"))
    /\ python_library' = get_config_var("LIBRARY")
    /\ candidate_lib_prefixes' = <<S_empty, S_lib>>
    /\ candidate_extensions' = CandidateExtensions(get_config_var("WITH_DYLD"))
    /\ candidate_versions' = CandidateVersions(python_version)
    /\ candidate_abiflags' = CandidateAbiflags(Abiflags(sys_abiflags))
    /\ pc' = "libdir"
    /\ UNCHANGED <<inputs, fs, build_temp_exists, libdir, consumed, build_args,
                   events, exc>>

\* lines 43-64: the library directory is determined, the generator is made
DetermineLibdir ==
    /\ pc = "libdir"
    /\ Libdir(config_vars) # TypeError
    /\ libdir' = Libdir(config_vars)
    /\ consumed' = 0
    /\ pc' = "probe"
    /\ UNCHANGED <<inputs, fs, build_temp_exists, python_library, axes,
                   build_args, events, exc>>

\* lines 43-54 when os.path.join is handed None: TypeError leaves
\* get_python_library and build_extension
DetermineLibdirRaises ==
    /\ pc = "libdir"
    /\ Libdir(config_vars) = TypeError
    /\ exc' = TypeError
    /\ pc' = "raised"
    /\ UNCHANGED <<inputs, fs, build_temp_exists, python_library, axes, libdir,
                   consumed, build_args, events>>

\* lines 66-70: the next candidate exists; it becomes the result
ProbeHit ==
    /\ pc = "probe"
    /\ consumed < Len(CandidateTuples)
    /\ LET candidate == CandidatePath(libdir, CandidateTuples[consumed + 1])
       IN  /\ Exists(candidate)
           /\ python_library' = candidate
    /\ consumed' = consumed + 1
    /\ pc' = "return"
    /\ UNCHANGED <<inputs, fs, build_temp_exists, axes, libdir, build_args,
                   events, exc>>

\* lines 66-67: the next candidate does not exist
ProbeMiss ==
    /\ pc = "probe"
    /\ consumed < Len(CandidateTuples)
    /\ ~Exists(CandidatePath(libdir, CandidateTuples[consumed + 1]))
    /\ consumed' = consumed + 1
    /\ UNCHANGED <<inputs, fs, build_temp_exists, pc, python_library, axes,
                   libdir, build_args, events, exc>>

\* variant: a miss resets the result to None
SearchExhaustedResets ==
    /\ pc = "probe"
    /\ consumed = Len(CandidateTuples)
    /\ python_library' = None
    /\ pc' = "return"
    /\ UNCHANGED <<inputs, fs, build_temp_exists, axes, libdir, consumed,
                   build_args, events, exc>>

\* line 66: the generator is exhausted, python_library keeps its value
SearchExhausted ==
    /\ pc = "probe"
    /\ consumed = Len(CandidateTuples)
    /\ pc' = "return"
    /\ UNCHANGED <<inputs, fs, build_temp_exists, python_library, axes, libdir,
                   consumed, build_args, events, exc>>

\* line 74 and lines 94-106: the locator returns into cmake_args
Return ==
    /\ pc = "return"
    /\ events' = Append(events, [op |-> "locate", value |-> python_library,
                                 rc |-> 0, args |-> <<>>])
    /\ pc' = "args"
    /\ UNCHANGED <<inputs, fs, build_temp_exists, python_library, axes, libdir,
                   consumed, build_args, exc>>

(* ------------------------- build_extension ----------------------------- *)
\* variant: -j4 is added whatever the environment holds
BuildArgsAlwaysJ(env, cmd) ==
    IF cmd.has_parallel /\ cmd.parallel # 0
    THEN <<S_dashj \o Decimal(cmd.parallel)>>
    ELSE <<S_dashj4>>

\* lines 108-119: the -j flag of the build step
BuildArgs(env, cmd) ==
    IF CMAKE_BUILD_PARALLEL_LEVEL \notin env
    THEN IF cmd.has_parallel /\ cmd.parallel # 0
         THEN <<S_dashj \o Decimal(cmd.parallel)>>
         ELSE <<S_dashj4>>
    ELSE <<>>

\* lines 108-122: build_args, and build_temp is created when missing
PrepareBuild ==
    /\ pc = "args"
    /\ build_args' = BuildArgs(environ, self)
    /\ build_temp_exists' = TRUE
    /\ pc' = "configure"
    /\ UNCHANGED <<inputs, fs, python_library, axes, libdir, consumed, events,
                   exc>>

\* variant: the exit status of the configure step is ignored
ConfigureUnchecked ==
    /\ pc = "configure"
    /\ \E rc \in {0, 1} :
          /\ events' = Append(events, [op |-> "configure",
                                       value |-> Format(events[Len(events)].value),
                                       rc |-> rc, args |-> <<>>])
          /\ pc' = "build"
          /\ exc' = exc
    /\ UNCHANGED <<inputs, fs, build_temp_exists, python_library, axes, libdir,
                   consumed, build_args>>

\* lines 124-126: check_call of cmake's configure step with
\* -DPYTHON_LIBRARY=<the locator's result>; a non-zero exit status raises
\* CalledProcessError
Configure ==
    /\ pc = "configure"
    /\ \E rc \in {0, 1} :
          /\ events' = Append(events, [op |-> "configure",
                                       value |-> Format(events[Len(events)].value),
                                       rc |-> rc, args |-> <<>>])
          /\ IF rc = 0
             THEN pc' = "build" /\ exc' = exc
             ELSE pc' = "raised" /\ exc' = CalledProcessError
    /\ UNCHANGED <<inputs, fs, build_temp_exists, python_library, axes, libdir,
                   consumed, build_args>>

\* lines 127-129: check_call of cmake --build . with build_args
Build ==
    /\ pc = "build"
    /\ \E rc \in {0, 1} :
          /\ events' = Append(events, [op |-> "build", value |-> None,
                                       rc |-> rc, args |-> build_args])
          /\ IF rc = 0
             THEN pc' = "done" /\ exc' = exc
             ELSE pc' = "raised" /\ exc' = CalledProcessError
    /\ UNCHANGED <<inputs, fs, build_temp_exists, python_library, axes, libdir,
                   consumed, build_args>>

(* ------------------------------ inputs --------------------------------- *)
RECURSIVE UpTo(_, _)
\* the subsets of S with at most k elements
UpTo(S, k) ==
    IF k = 0 THEN {{}}
    ELSE LET prev == UpTo(S, k - 1)
         IN  prev \cup {T \cup {x} : T \in prev, x \in S}

\* the file systems whose entries, files or directories, are at most k of paths
FileSystems(paths, k) == UNION {[T -> {"file", "dir"}] : T \in UpTo(paths, k)}

\* the file systems that hold at most k of paths, all of them regular files
Files(paths, k) == {[p \in T |-> "file"] : T \in UpTo(paths, k)}

Config(library, with_dyld, dir, multiarch, masd, libdest) ==
    [LIBRARY |-> library, WITH_DYLD |-> with_dyld, LIBDIR |-> dir,
     MULTIARCH |-> multiarch, multiarchsubdir |-> masd, LIBDEST |-> libdest]

\* names a libpython may carry in the library directory /usr/lib
SearchNames ==
    {Concat(<<pre, S_python, ver, ext>>) :
        pre \in {S_empty, S_lib}, ver \in {S_empty, S_cat310, S_310},
        ext \in {S_dotdylib, S_dotlib, S_dotso, S_dota}}

Locals ==
    /\ pc = "start"
    /\ python_library = None
    /\ candidate_lib_prefixes = <<>>
    /\ candidate_extensions = <<>>
    /\ candidate_versions = <<>>
    /\ candidate_abiflags = <<>>
    /\ libdir = None
    /\ consumed = 0
    /\ build_args = <<>>
    /\ events = <<>>
    /\ exc = None

\* the files of the library directory vary, under a plain LIBDIR
InitSearch ==
    /\ config_vars \in
         {Config(l, w, S_usrlib, None, None, S_libdest) :
            l \in {None, S_libpython_a, S_libpython_dylib}, w \in {0, 1}}
    /\ python_version \in {S_empty, S_310}
    /\ sys_abiflags = S_empty
    /\ fs \in Files({Join(S_usrlib, n) : n \in SearchNames}, MaxEntries)
    /\ environ = {}
    /\ self = [has_parallel |-> FALSE, parallel |-> 0]
    /\ build_temp_exists = FALSE

\* the configuration of the library directory and the ABI flags vary; the
\* one entry of the file system is a file or a directory
InitConfig ==
    /\ config_vars \in
         {Config(l, 0, d, m, s, ld) :
            l \in {None, S_libpython_a}, d \in {None, S_usrlib},
            m \in {None, S_x86}, s \in {None, S_empty, S_x86, S_slashx86},
            ld \in {None, S_libdest}}
    /\ python_version \in {S_empty, S_310}
    /\ sys_abiflags \in {None, S_empty, S_d}
    /\ fs \in FileSystems(
                {Join(d, n) : d \in {S_usrlib, S_usrlibx86, S_usrliblibs},
                              n \in {S_libpython_so,
                                     S_lib \o S_python \o S_310 \o S_d \o S_dotso}},
                1)
    /\ environ = {}
    /\ self = [has_parallel |-> FALSE, parallel |-> 0]
    /\ build_temp_exists = FALSE

\* the build command and its environment vary
InitBuild ==
    /\ config_vars \in
         {Config(l, 1, S_usrlib, None, None, S_libdest) :
            l \in {None, S_libpython_dylib, S_python_la, S_framework}}
    /\ python_version = S_310
    /\ sys_abiflags = S_empty
    /\ fs \in FileSystems({Join(S_usrlib, S_libpython_dylib)}, 1)
    /\ environ \in {{}, {CMAKE_BUILD_PARALLEL_LEVEL}}
    /\ self \in [has_parallel : BOOLEAN, parallel : 0..MaxParallel]
    /\ build_temp_exists \in BOOLEAN

Init == Locals /\ (InitSearch \/ InitConfig \/ InitBuild)

Next ==
    \/ ReadLibraryDynamic
    \/ ReadLibrarySearch
    \/ DetermineLibdir
    \/ DetermineLibdirRaises
    \/ ProbeHit
    \/ ProbeMiss
    \/ SearchExhausted
    \/ Return
    \/ PrepareBuild
    \/ Configure
    \/ Build

Spec == Init /\ [][Next]_vars

(* ------------------------- vocabulary of the claims -------------------- *)
Range(list) == {list[i] : i \in DOMAIN list}

\* position of the first occurrence of x in list
IndexOf(list, x) ==
    CHOOSE i \in DOMAIN list : list[i] = x /\ \A j \in 1..(i - 1) : list[j] # x

\* every (prefix, extension, version, abi) the axes allow, as a set
AllTuples ==
    {<<p, e, v, a>> : p \in Range(candidate_lib_prefixes),
                      e \in Range(candidate_extensions),
                      v \in Range(candidate_versions),
                      a \in Range(candidate_abiflags)}

\* nesting position of a tuple: prefix, then extension, then version, then abi
Key(t) ==
    <<IndexOf(candidate_lib_prefixes, t[1]), IndexOf(candidate_extensions, t[2]),
      IndexOf(candidate_versions, t[3]), IndexOf(candidate_abiflags, t[4])>>

LexLess(a, b) ==
    \E i \in 1..4 : a[i] < b[i] /\ \A j \in 1..(i - 1) : a[j] = b[j]

\* the search got as far as probing
SearchRan == libdir # None

\* the search is over: a hit, or the candidates are exhausted
SearchOver == SearchRan /\ pc # "probe"

\* get_python_library has returned
Returned == Len(events) >= 1

\* what get_python_library returned
Result == events[1].value

\* the candidates that are on disk
ExistingTuples == {t \in AllTuples : CandidatePath(libdir, t) \in DOMAIN fs}

\* the tuple probed last
LastProbed == CandidateTuples[consumed]

\* the search ended on a hit
Hit ==
    /\ SearchOver
    /\ consumed >= 1
    /\ python_library = CandidatePath(libdir, LastProbed)
    /\ python_library \in DOMAIN fs

\* rank of a version spelling of "3.10" as the claim C1 orders them
ClaimedRank(v) ==
    IF v = S_310 THEN 1 ELSE IF v = S_cat310 THEN 2 ELSE IF v = S_empty THEN 3 ELSE 0

\* rank of a version spelling of "3.10" as the code orders them
CodeRank(v) ==
    IF v = S_cat310 THEN 1 ELSE IF v = S_310 THEN 2 ELSE IF v = S_empty THEN 3 ELSE 0

(* ------------------------------- C1 ------------------------------------ *)
\* C1 as stated: for the version "3.10", within one prefix and extension the
\* candidates are probed full version "3.10" first, then "310", then "", and
\* of several existing files with that prefix and extension the one returned
\* has the first of these versions.
C1_FullVersionFirst ==
    (SearchRan /\ python_version = S_310 /\ consumed >= 1) =>
        /\ \A i \in 1..(consumed - 1) :
              (CandidateTuples[i][1] = LastProbed[1] /\ CandidateTuples[i][2] = LastProbed[2])
                 => ClaimedRank(CandidateTuples[i][3]) <= ClaimedRank(LastProbed[3])
        /\ Hit => \A t \in ExistingTuples :
                     (t[1] = LastProbed[1] /\ t[2] = LastProbed[2])
                        => ClaimedRank(LastProbed[3]) <= ClaimedRank(t[3])

\* C1, amended: for the version "3.10", within one prefix and extension the
\* candidates are probed concatenated version "310" first, then the full
\* version "3.10", then ""; of several existing files with that prefix and
\* extension the one returned has the first of these versions.  For the empty
\* version descriptor only the empty version is probed.
C1_ConcatenatedVersionFirst ==
    /\ (SearchRan /\ python_version = S_310) =>
          /\ Range(candidate_versions) = {S_cat310, S_310, S_empty}
          /\ consumed >= 1 =>
                /\ CodeRank(LastProbed[3]) >= 1
                /\ \A i \in 1..(consumed - 1) :
                      (CandidateTuples[i][1] = LastProbed[1]
                         /\ CandidateTuples[i][2] = LastProbed[2])
                         => CodeRank(CandidateTuples[i][3]) <= CodeRank(LastProbed[3])
                /\ Hit => \A t \in ExistingTuples :
                             (t[1] = LastProbed[1] /\ t[2] = LastProbed[2])
                                => CodeRank(LastProbed[3]) <= CodeRank(t[3])
    /\ (SearchRan /\ python_version = S_empty) => candidate_versions = <<S_empty>>

\* C1 witness: "310" and "3.10" files exist with one prefix and extension,
\* and the "310" file has been returned
C1_Witness ==
    /\ Returned /\ Hit
    /\ python_version = S_310
    /\ LastProbed[3] = S_cat310
    /\ <<LastProbed[1], LastProbed[2], S_310, LastProbed[4]>> \in ExistingTuples

(* ------------------------------- C2 ------------------------------------ *)
\* C2 as stated: when the search finds no candidate on disk, the function
\* raises nothing and its result is None, whether LIBRARY is absent or static.
C2_MissReturnsNone ==
    (SearchOver /\ ExistingTuples = {}) =>
        /\ exc # TypeError
        /\ python_library = None
        /\ Returned => Result = None

\* C2, amended: when the search finds no candidate on disk, the function
\* raises nothing and returns the LIBRARY configuration value unchanged: None
\* when LIBRARY is absent, the static archive's name when LIBRARY is static.
C2_MissReturnsLibrary ==
    (SearchOver /\ ExistingTuples = {}) =>
        /\ exc # TypeError
        /\ consumed = Cardinality(AllTuples)
        /\ python_library = get_config_var("LIBRARY")
        /\ Returned => Result = get_config_var("LIBRARY")

\* C2 witness: a search that missed has returned the static LIBRARY value
C2_Witness ==
    /\ Returned /\ SearchRan
    /\ ExistingTuples = {}
    /\ get_config_var("LIBRARY") = S_libpython_a
    /\ Result = S_libpython_a

(* ------------------------------- C3 ------------------------------------ *)
\* C3 as stated: get_python_library raises no exception, whatever the
\* configuration; with LIBDIR or LIBDEST absent it still returns.
C3_NeverRaises == exc # TypeError

(* ------------------------------- C4 ------------------------------------ *)
\* C4: a LIBRARY value that is present and whose extension is not ".a" is
\* returned unchanged, and no candidate is built or probed on the way.
C4_DynamicLibraryUnchanged ==
    LET library == get_config_var("LIBRARY")
    IN  (library # None /\ Splitext(library)[2] # S_dota) =>
           /\ pc \notin {"libdir", "probe"}
           /\ ~SearchRan
           /\ consumed = 0
           /\ AllTuples = {}
           /\ exc # TypeError
           /\ pc # "start" => python_library = library
           /\ Returned => Result = library

\* C4 witness: a LIBRARY with a non-static extension has been returned while
\* the library directory holds a libpython
C4_Witness ==
    /\ Returned
    /\ get_config_var("LIBRARY") \in {S_libpython_dylib, S_python_la, S_framework}
    /\ DOMAIN fs # {}

(* ------------------------------- C5 ------------------------------------ *)
\* C5: the k-th candidate probed is the k-th tuple in nested order (prefix
\* "" then "lib" outermost, then extension, then version, ABI suffix
\* innermost); the search goes on to another candidate only after one that
\* does not exist; the result of a search that found something is the first
\* existing candidate in that order.
C5_NestedOrderFirstHit ==
    SearchRan =>
        /\ candidate_lib_prefixes = <<S_empty, S_lib>>
        /\ consumed <= Cardinality(AllTuples)
        /\ consumed >= 1 =>
              LET last == Key(LastProbed)
              IN  Cardinality({t \in AllTuples : LexLess(Key(t), last)}) = consumed - 1
        /\ (pc = "probe" /\ consumed >= 1) =>
              CandidatePath(libdir, LastProbed) \notin DOMAIN fs
        /\ (SearchOver /\ ExistingTuples # {}) =>
              /\ Hit
              /\ LET last == Key(LastProbed)
                 IN  \A t \in ExistingTuples : ~LexLess(Key(t), last)
        /\ (Returned /\ ExistingTuples # {}) =>
              Result = CandidatePath(libdir, LastProbed)

\* C5 witness: two candidates exist, the search has passed over a missing
\* candidate, returned the earlier of the two and never probed the later
C5_Witness ==
    /\ Returned /\ Hit
    /\ consumed > 1
    /\ Cardinality(ExistingTuples) >= 2
    /\ consumed < Cardinality(AllTuples)

(* ------------------------------- C6 ------------------------------------ *)
\* C6 as stated: when the library directory holds a candidate with a dynamic
\* extension, the result never has the extension ".a".
C6_NoStaticWhenDynamicExists ==
    (Returned /\ SearchRan /\ \E t \in ExistingTuples : t[2] # S_dota) =>
        /\ Result # None
        /\ Splitext(Result)[2] # S_dota

\* C6, amended: when the library directory holds a candidate with a dynamic
\* extension, the result is an existing candidate, never the static LIBRARY
\* value, and it is a ".a" candidate only when its prefix comes before the
\* prefix of every existing dynamic candidate (python*.a goes before
\* libpython*.so).
C6_StaticOnlyUnderEarlierPrefix ==
    (Returned /\ SearchRan /\ \E t \in ExistingTuples : t[2] # S_dota) =>
        \E t \in ExistingTuples :
           /\ Result = CandidatePath(libdir, t)
           /\ t[2] = S_dota =>
                 \A u \in ExistingTuples :
                    u[2] # S_dota =>
                       IndexOf(candidate_lib_prefixes, t[1])
                          < IndexOf(candidate_lib_prefixes, u[1])

\* C6 witness: a static and a dynamic candidate exist with one prefix, and
\* the dynamic one has been returned
C6_Witness ==
    /\ Returned /\ Hit
    /\ LastProbed[2] # S_dota
    /\ \E t \in ExistingTuples : t[2] = S_dota /\ t[1] = LastProbed[1]

(* ------------------------------- C7 ------------------------------------ *)
\* C7 as stated: a path the search returns is a regular file on disk, never
\* a directory.
C7_ReturnsRegularFile ==
    (Returned /\ Hit) => (Result \in DOMAIN fs /\ fs[Result] = "file")

(* ------------------------------- C8 ------------------------------------ *)
\* the platform declares a multiarch subdirectory
DeclaresMultiarch ==
    Truthy(get_config_var("MULTIARCH")) /\ Truthy(get_config_var("multiarchsubdir"))

\* the directory C8 names, for a configuration that has LIBDIR or LIBDEST
ClaimedDirectory ==
    LET dir == get_config_var("LIBDIR")
        masd == get_config_var("multiarchsubdir")
    IN  IF dir = None THEN S_usrliblibs
        ELSE IF DeclaresMultiarch
        THEN dir \o sep \o (IF Head(masd) = "/" THEN Tail(masd) ELSE masd)
        ELSE dir

\* C8 as stated: once the directory has been determined, it is LIBDIR plus
\* the multiarch subdirectory when one is declared, LIBDIR when none is, and
\* <LIBDEST>/../libs when no LIBDIR is configured; the candidates are probed
\* there.
C8_ProbeDirectory ==
    ((pc \notin {"start", "libdir"} /\ AllTuples # {})
        /\ (get_config_var("LIBDIR") # None \/ get_config_var("LIBDEST") = S_libdest)) =>
        /\ libdir = ClaimedDirectory
        /\ consumed >= 1 =>
              CandidatePath(libdir, LastProbed)
                 = ClaimedDirectory \o sep
                      \o Concat(<<LastProbed[1], S_python, LastProbed[3],
                                  LastProbed[4], LastProbed[2]>>)

(* ------------------------------- C9 ------------------------------------ *)
\* C9: the locator returns exactly once and before any subprocess; the
\* configure step is the first subprocess; the build step is spawned only
\* after a configure step that exited with status 0.
C9_LocateConfigureBuild ==
    /\ \A i \in DOMAIN events :
          /\ events[i].op = "locate" => i = 1
          /\ events[i].op = "configure" => (i = 2 /\ events[1].op = "locate")
          /\ events[i].op = "build" =>
                (i = 3 /\ events[2].op = "configure" /\ events[2].rc = 0)
    /\ pc \in {"configure", "build", "done"} => events[1].op = "locate"
    /\ pc \in {"build", "done"} => (events[2].op = "configure" /\ events[2].rc = 0)
    /\ pc = "done" => (Len(events) = 3 /\ events[3].op = "build")
    /\ exc = TypeError => events = <<>>

\* C9 witness: the configure step has failed after the locator returned, and
\* the run is over without a build step
C9_Witness ==
    /\ pc = "raised"
    /\ Len(events) = 2
    /\ events[2].op = "configure"
    /\ events[2].rc = 1

(* ------------------------------- C10 ----------------------------------- *)
\* the -j argument C10 names
ClaimedBuildArgs ==
    IF CMAKE_BUILD_PARALLEL_LEVEL \in environ THEN <<>>
    ELSE IF self.has_parallel /\ self.parallel # 0
    THEN << <<"-", "j">> \o Decimal(self.parallel) >>
    ELSE << <<"-", "j", "4">> >>

\* C10: with CMAKE_BUILD_PARALLEL_LEVEL set the build step gets no -j flag;
\* otherwise it gets exactly one, -j<parallel> for a non-zero parallel option
\* and -j4 without one; and no step changes the environment.
C10_JobCount ==
    /\ [](/\ pc \in {"configure", "build", "done"} => build_args = ClaimedBuildArgs
          /\ \A i \in DOMAIN events :
                events[i].op = "build" => events[i].args = ClaimedBuildArgs)
    /\ [][environ' = environ]_vars

\* C10 witness: the build step has run with -j<parallel> of a set parallel
\* option
C10_Witness ==
    /\ Len(events) = 3
    /\ self.has_parallel /\ self.parallel = 2
    /\ events[3].args = << <<"-", "j", "2">> >>

=============================================================================
